---------------------------- MODULE Spec2Model ----------------------------
(***************************************************************************)
(* A model of jax_elo/general.py: the single-match Newton update, the      *)
(* win-probability estimator, the fixed-index sequential updater           *)
(* (lax.scan over update_ratings), the name-keyed history builder and the  *)
(* flatten / reconstruct pair used by the hyperparameter optimiser.        *)
(*                                                                         *)
(* Real numbers are exact rationals <<n, d>> in lowest terms with d > 0.   *)
(* The pair <<0, 0>> stands for every non-finite float (nan, +inf, -inf):  *)
(* it absorbs every arithmetic operation, as nan does.                     *)
(***************************************************************************)
EXTENDS Integers, Sequences, FiniteSets, TLC

VARIABLES
    \* inputs of one run of the fixed-index updater / the history builder
    winners_array, losers_array, a_full, y_full, elo_params, init, caller,
    backend,
    \* calculate_ratings_scan
    carry, idx, liks, pc, total, objective,
    \* what each processed match read and wrote
    reads, writes,
    \* calculate_ratings_history
    h_ratings, history, h_idx, h_pc,
    \* calculate_win_prob
    wp_in, wp_out, wp_pc,
    \* optimise_elo's flattening and update_params
    p_start, p_flat, p_summaries, p_x, p_lib, p_calls, p_out, p_pc

scanVars == <<winners_array, losers_array, a_full, y_full, elo_params, init,
              caller, backend, carry, idx, liks, pc, total, objective,
              reads, writes>>
histVars == <<h_ratings, history, h_idx, h_pc>>
wpVars == <<wp_in, wp_out, wp_pc>>
parVars == <<p_start, p_flat, p_summaries, p_x, p_lib, p_calls, p_out, p_pc>>
vars == <<scanVars, histVars, wpVars, parVars>>

---------------------------------------------------------------------------
(* Bounds of the model. *)

\* competitors of the fixed-index table (rows 0 .. NPlayers-1)
NPlayers == 4
\* longest match list
MaxN == 2
\* largest number of skills of a covariance that is flattened
MaxDim == 2
\* largest absolute entry of a mean given to the win-probability estimator
MaxMean == 1

---------------------------------------------------------------------------
(* Exact arithmetic. *)

Abs(n) == IF n < 0 THEN -n ELSE n

RECURSIVE Gcd(_, _)
Gcd(a, b) == IF b = 0 THEN a ELSE Gcd(b, a % b)

NonFinite == <<0, 0>>

IsFinite(q) == q[2] # 0

Norm(n, d) ==
    IF d = 0 THEN NonFinite
    ELSE IF d = 1 THEN <<n, 1>>
    ELSE LET g == Gcd(Abs(n), Abs(d))
             s == IF d < 0 THEN -1 ELSE 1
         IN  <<(s * n) \div g, (s * d) \div g>>

R(n) == <<n, 1>>

RAdd(p, q) ==
    IF IsFinite(p) /\ IsFinite(q)
    THEN Norm(p[1] * q[2] + q[1] * p[2], p[2] * q[2]) ELSE NonFinite

RNeg(p) == IF IsFinite(p) THEN <<-p[1], p[2]>> ELSE NonFinite

RSub(p, q) == RAdd(p, RNeg(q))

RMul(p, q) ==
    IF IsFinite(p) /\ IsFinite(q)
    THEN Norm(p[1] * q[1], p[2] * q[2]) ELSE NonFinite

\* IEEE division: x / 0 is inf or nan, never an error
RDiv(p, q) ==
    IF IsFinite(p) /\ IsFinite(q) /\ q[1] # 0
    THEN Norm(p[1] * q[2], p[2] * q[1]) ELSE NonFinite

\* a sequence given by a rule, as the tuple of its values
Tup(f) == SubSeq(f, 1, Len(f))

RECURSIVE SumTo(_, _)
SumTo(v, n) == IF n = 0 THEN R(0) ELSE RAdd(SumTo(v, n - 1), v[n])

\* jnp.sum of a vector
Sum(v) == SumTo(v, Len(v))

Dot(u, v) == Sum(Tup([i \in 1..Len(u) |-> RMul(u[i], v[i])]))

MatVec(M, v) == Tup([i \in 1..Len(M) |-> Dot(M[i], v)])

VecAdd(u, v) == Tup([i \in 1..Len(u) |-> RAdd(u[i], v[i])])

VecNeg(u) == Tup([i \in 1..Len(u) |-> RNeg(u[i])])

\* an integer vector or matrix as rationals
RVec(v) == Tup([i \in 1..Len(v) |-> R(v[i])])
RMat(M) == Tup([i \in 1..Len(M) |-> RVec(M[i])])

Zeros(n) == Tup([i \in 1..n |-> R(0)])

\* jnp.concatenate([u, v])
concatenate(u, v) == u \o v

\* jnp.split(v, 2)
split2(v) == <<SubSeq(v, 1, Len(v) \div 2), SubSeq(v, Len(v) \div 2 + 1, Len(v))>>

\* jnp.kron(jnp.eye(2), cov): the block-diagonal matrix diag(cov, cov)
kron_eye2(cov) ==
    LET n == Len(cov)
    IN  Tup([i \in 1..(2 * n) |-> Tup([j \in 1..(2 * n) |->
            IF (i <= n) = (j <= n)
            THEN cov[((i - 1) % n) + 1][((j - 1) % n) + 1] ELSE R(0)])])

Minor(M, j) ==
    Tup([r \in 1..(Len(M) - 1) |-> Tup([c \in 1..(Len(M) - 1) |->
        M[r + 1][IF c < j THEN c ELSE c + 1]])])

RECURSIVE Det(_)
Det(M) ==
    IF Len(M) = 1 THEN M[1][1]
    ELSE IF Len(M) = 2
    THEN RSub(RMul(M[1][1], M[2][2]), RMul(M[1][2], M[2][1]))
    ELSE Sum(Tup([j \in 1..Len(M) |->
            RMul(IF j % 2 = 1 THEN M[1][j] ELSE RNeg(M[1][j]),
                 Det(Minor(M, j)))]))

ReplaceCol(M, j, b) ==
    Tup([r \in 1..Len(M) |-> Tup([c \in 1..Len(M) |->
        IF c = j THEN b[r] ELSE M[r][c]])])

IsSingular(H) == Det(H) = R(0)

\* jnp.linalg.solve(H, b).  A regular system has its one solution.  On an
\* exactly singular matrix JAX raises nothing: the factorisation divides by
\* a zero pivot and the result holds inf or nan in the entries the backend's
\* elimination order makes depend on that pivot.  Which entries is left to
\* the build: `backend` is the set of entries that come out non-finite.
solve(H, b) ==
    LET d == Det(H)
    IN  IF d = R(0)
        THEN Tup([j \in 1..Len(H) |-> IF j \in backend THEN NonFinite ELSE R(0)])
        ELSE Tup([j \in 1..Len(H) |-> RDiv(Det(ReplaceCol(H, j, b)), d)])


---------------------------------------------------------------------------
(* The outcome model (EloFunctions): supplied by the caller.  The instance *)
(* used here is a margin model with a Gaussian prior, theta holding one    *)
(* scale: log posterior(x) = -|x - mu|^2_cov / 2 - scale (y - a.x)^2 / 2.  *)
(* Gradient and Hessian are given premultiplied by cov, which leaves the   *)
(* Newton step solve(H, J) unchanged and keeps every entry rational.       *)

\* theta is an ordered dictionary of named arrays: << <<name, array>>, ... >>
Theta(scale) == << <<"scale", <<scale>> >> >>

Scale(theta) == R(theta[1][2][1])

log_post_jac_x(x, mu, cov, a, theta, y) ==
    LET resid == RSub(y[1], Dot(a, x))
        ca == MatVec(cov, a)
    IN  Tup([i \in 1..Len(x) |->
            RSub(RMul(ca[i], RMul(Scale(theta), resid)), RSub(x[i], mu[i]))])

log_post_hess_x(x, mu, cov, a, theta, y) ==
    LET ca == MatVec(cov, a)
    IN  Tup([i \in 1..Len(x) |-> Tup([j \in 1..Len(x) |->
            RNeg(RAdd(IF i = j THEN R(1) ELSE R(0),
                      RMul(Scale(theta), RMul(ca[i], a[j]))))])])

predictive_lik_fun(x, mu, a, cov, theta, y) ==
    LET resid == RSub(y[1], Dot(a, x))
    IN  RNeg(RMul(Scale(theta), RMul(resid, resid)))

---------------------------------------------------------------------------
(* The single-match update. *)

\* a variant that keeps the prior mean when the Hessian is singular
calculate_update_skip_singular(mu, cov_mat, a, y, params) ==
    LET mode_jac == log_post_jac_x(mu, mu, cov_mat, a, params.theta, y)
        mode_hess == log_post_hess_x(mu, mu, cov_mat, a, params.theta, y)
    IN  <<IF IsSingular(mode_hess) THEN mu
          ELSE VecAdd(VecNeg(solve(mode_hess, mode_jac)), mu),
          predictive_lik_fun(mu, mu, a, cov_mat, params.theta, y)>>

\* returns <<new mean, likelihood>>
calculate_update(mu, cov_mat, a, y, params) ==
    LET lik == predictive_lik_fun(mu, mu, a, cov_mat, params.theta, y)
        mode_jac == log_post_jac_x(mu, mu, cov_mat, a, params.theta, y)
        mode_hess == log_post_hess_x(mu, mu, cov_mat, a, params.theta, y)
        new_x == VecNeg(solve(mode_hess, mode_jac))
    IN  <<VecAdd(new_x, mu), lik>>

\* returns <<new_mu1, new_mu2, lik>>
concatenate_and_update(mu1, mu2, a, y, params) ==
    LET mu == concatenate(mu1, mu2)
        cov_full == kron_eye2(RMat(params.cov_mat))
        upd == calculate_update(mu, cov_full, a, y, params)
        halves == split2(upd[1])
    IN  <<halves[1], halves[2], upd[2]>>

---------------------------------------------------------------------------
(* The win-probability estimator. *)

\* ml_tools weighted_sum: mean and variance of a.x for x ~ N(mu, cov)
weighted_sum(mu, cov, a) == <<Dot(a, mu), Dot(a, MatVec(cov, a))>>

\* ml_tools logistic_normal_integral_approx(m, v), the moment-matched
\* sigmoid(m / sqrt(1 + pi v / 8)): kept to where it lies relative to 1/2,
\* which for v >= 0 is decided by the sign of m alone.
logistic_normal_integral_approx(m, v) ==
    IF ~IsFinite(m) \/ ~IsFinite(v) THEN "nan"
    ELSE IF m[1] = 0 THEN "half"
    ELSE IF m[1] > 0 THEN "above_half" ELSE "below_half"

\* a variant that rates the first competitor alone
calculate_win_prob_first_only(mu1, mu2, a, cov_mat, pre_factor) ==
    LET lat == weighted_sum(mu1, cov_mat, SubSeq(a, 1, Len(mu1)))
    IN  logistic_normal_integral_approx(
            RMul(pre_factor, lat[1]),
            RMul(RMul(pre_factor, pre_factor), lat[2]))

calculate_win_prob(mu1, mu2, a, cov_mat, pre_factor) ==
    LET full_mu == concatenate(mu1, mu2)
        full_cov_mat == kron_eye2(cov_mat)
        lat == weighted_sum(full_mu, full_cov_mat, a)
    IN  logistic_normal_integral_approx(
            RMul(pre_factor, lat[1]),
            RMul(RMul(pre_factor, pre_factor), lat[2]))

---------------------------------------------------------------------------
(* The fixed-index sequential updater. *)

\* jax.ops.index_update(table, i, row)
index_update(table, i, row) == [table EXCEPT ![i] = row]

\* a variant that reads both means from the table the run started with
update_ratings_stale_read(table, x, params) ==
    LET upd == concatenate_and_update(init[x[1]], init[x[2]], x[3], x[4], params)
    IN  [carry |-> index_update(index_update(table, x[1], upd[1]), x[2], upd[2]),
         lik |-> upd[3],
         mu1 |-> init[x[1]], mu2 |-> init[x[2]],
         new1 |-> upd[1], new2 |-> upd[2]]

\* a variant that rewrites the whole table from the winner's new mean
update_ratings_broadcast(table, x, params) ==
    LET upd == concatenate_and_update(table[x[1]], table[x[2]], x[3], x[4], params)
    IN  [carry |-> index_update([k \in DOMAIN table |-> upd[1]], x[2], upd[2]),
         lik |-> upd[3],
         mu1 |-> table[x[1]], mu2 |-> table[x[2]],
         new1 |-> upd[1], new2 |-> upd[2]]

\* x = <<cur_winner, cur_loser, cur_a, cur_y>>.  The code returns (carry, lik);
\* mu1, mu2 (the means it read) and new1, new2 (the means it computed) are
\* kept beside them for the record of the run.
update_ratings(table, x, params) ==
    LET cur_winner == x[1]
        cur_loser == x[2]
        upd == concatenate_and_update(table[cur_winner], table[cur_loser],
                                      x[3], x[4], params)
        c1 == index_update(table, cur_winner, upd[1])
        c2 == index_update(c1, cur_loser, upd[2])
    IN  [carry |-> c2, lik |-> upd[3],
         mu1 |-> table[cur_winner], mu2 |-> table[cur_loser],
         new1 |-> upd[1], new2 |-> upd[2]]

\* a variant that reports the last likelihood instead of the sum
scan_result_last_lik(ratings, ls) ==
    <<ratings, IF Len(ls) = 0 THEN R(0) ELSE ls[Len(ls)]>>

\* a variant that weights each likelihood by its position in the scan
scan_result_weighted(ratings, ls) ==
    <<ratings, Sum(Tup([i \in 1..Len(ls) |-> RMul(R(i), ls[i])]))>>

\* what calculate_ratings_scan returns from scan's final carry and outputs
scan_result(ratings, ls) == <<ratings, Sum(ls)>>

---------------------------------------------------------------------------
(* Inputs of a run. *)

Players == 0..(NPlayers - 1)

\* the shared covariance and theta a run is given
ParamSet ==
    {[theta |-> Theta(1), cov_mat |-> <<<<1>>>>],
     [theta |-> Theta(-1), cov_mat |-> <<<<1>>>>],
     [theta |-> Theta(1), cov_mat |-> <<<<4>>>>]}

\* number of skills per competitor
NSkills(params) == Len(params.cov_mat)

\* design vectors of length 2L
DesignVectors(L) ==
    IF L = 1 THEN {<<1, -1>>, <<1, 0>>}
    ELSE {<<1, 0, -1, 0>>, <<1, 1, -1, -1>>}

\* additional observations of a match: the margin
Outcomes == {<<1>>}

ZeroTable(L) == [k \in Players |-> Zeros(L)]

\* a start table with a different row for every competitor
RampTable(L) == [k \in Players |-> Tup([j \in 1..L |-> R(k)])]

NMatches == Len(winners_array)

\* the competitors of matches 1..k in scan order: winner, loser, winner, ...
Slots(w, l, k) == Tup([j \in 1..(2 * k) |->
                        IF j % 2 = 1 THEN w[(j + 1) \div 2] ELSE l[j \div 2]])

\* the input arrays number the competitors in order of first appearance
FirstSeenOrder(w, l) ==
    LET s == Slots(w, l, Len(w))
    IN  \A j \in 1..Len(s) :
            s[j] <= Cardinality({s[h] : h \in 1..(j - 1)})

\* the scanned element i (0-based) of the four input arrays
MatchAt(i) ==
    <<winners_array[i + 1], losers_array[i + 1],
      RVec(a_full[i + 1]), RVec(y_full[i + 1])>>

\* whether match i meets a singular log-posterior Hessian (the Hessian of
\* this outcome model does not depend on the means)
SingularAt(i) ==
    LET L == NSkills(elo_params)
    IN  IsSingular(log_post_hess_x(Zeros(2 * L), Zeros(2 * L),
                                   kron_eye2(RMat(elo_params.cov_mat)),
                                   RVec(a_full[i + 1]), elo_params.theta,
                                   RVec(y_full[i + 1])))

\* the entries a singular solve leaves non-finite: any non-empty set
Backends(L) == (SUBSET (1..(2 * L))) \ {{}}

None == <<>>

---------------------------------------------------------------------------
(* calculate_ratings_scan, and to_optimise around it. *)

ScanInit ==
    /\ elo_params \in ParamSet
    /\ \E n \in 0..MaxN :
        /\ winners_array \in [1..n -> Players]
        /\ losers_array \in [1..n -> Players]
        /\ FirstSeenOrder(winners_array, losers_array)
        /\ a_full \in [1..n -> DesignVectors(NSkills(elo_params))]
        /\ y_full \in [1..n -> Outcomes]
    /\ caller \in {"direct", "to_optimise"}
    \* to_optimise starts from jnp.zeros((n_players, L))
    /\ init = IF caller = "to_optimise" THEN ZeroTable(NSkills(elo_params))
              ELSE RampTable(NSkills(elo_params))
    /\ backend = {}
    /\ carry = init
    /\ idx = 0
    /\ liks = <<>>
    /\ pc = "call"
    /\ total = None
    /\ objective = None
    /\ reads = <<>>
    /\ writes = <<>>

\* the first call of the jitted function traces and compiles it; the build
\* matters only to a run that meets a singular Hessian
JitCompile ==
    /\ pc = "call"
    /\ backend' \in IF \E i \in 0..(NMatches - 1) : SingularAt(i)
                    THEN Backends(NSkills(elo_params))
                    ELSE {1..(2 * NSkills(elo_params))}
    /\ pc' = "scan"
    /\ UNCHANGED <<winners_array, losers_array, a_full, y_full, elo_params,
                   init, caller, carry, idx, liks, total, objective, reads,
                   writes>>

\* one iteration of lax.scan: fun_to_scan on the next element
ScanStep ==
    /\ pc = "scan"
    /\ idx < NMatches
    /\ \E r \in {update_ratings(carry, MatchAt(idx), elo_params)} :
           /\ carry' = r.carry
           /\ liks' = Append(liks, r.lik)
           /\ reads' = Append(reads, [i |-> idx, mu1 |-> r.mu1, mu2 |-> r.mu2])
           /\ writes' = Append(writes, [new1 |-> r.new1, new2 |-> r.new2])
    /\ idx' = idx + 1
    /\ UNCHANGED <<winners_array, losers_array, a_full, y_full, elo_params,
                   init, caller, backend, pc, total, objective>>

\* scan is exhausted: calculate_ratings_scan returns (ratings, sum of liks),
\* and to_optimise returns the negated likelihood
ScanReturn ==
    /\ pc = "scan"
    /\ idx = NMatches
    /\ \E res \in {scan_result(carry, liks)} :
           /\ carry' = res[1]
           /\ total' = <<res[2]>>
           /\ objective' = IF caller = "to_optimise"
                           THEN <<RNeg(res[2])>> ELSE None
    /\ pc' = "done"
    /\ UNCHANGED <<winners_array, losers_array, a_full, y_full, elo_params,
                   init, caller, backend, idx, liks, reads, writes>>

---------------------------------------------------------------------------
(* calculate_ratings_history, run on the same matches with names for rows. *)

\* the one-to-one naming of the competitors
NameOf(k) == ToString(k)

\* the names general.py binds at module level
module_globals ==
    {"onp", "jnp", "jit", "grad", "partial", "index_update", "scan",
     "namedtuple", "defaultdict", "minimize", "num_triangular_elts",
     "pos_def_mat_from_tri_elts", "weighted_sum",
     "logistic_normal_integral_approx", "flatten_and_summarise",
     "reconstruct_np", "tqdm", "EloFunctions", "EloParams",
     "calculate_update", "calculate_win_prob", "concatenate_and_update",
     "update_ratings", "calculate_ratings_scan", "calculate_ratings_history",
     "get_starting_elts", "update_params", "ratings_lik", "to_optimise",
     "optimise_elo"}

\* defaultdict.__getitem__: a missing key is inserted with the default
defaultdict_get(d, key, default) ==
    IF key \in DOMAIN d THEN d
    ELSE [k \in DOMAIN d \cup {key} |-> IF k = key THEN default ELSE d[k]]

\* elo_functions.win_prob_fun: calculate_win_prob with its default pre_factor
win_prob_fun(mu1, mu2, a, cov_mat) ==
    calculate_win_prob(mu1, mu2, a, RMat(cov_mat), R(1))

\* a caller runs the history builder once calculate_ratings_scan has returned
HistInit ==
    /\ h_ratings = <<>>
    /\ history = <<>>
    /\ h_idx = 0
    /\ h_pc = "loop"

\* one pass of the loop body
HistoryStep ==
    /\ pc = "done"
    /\ h_pc = "loop"
    /\ h_idx < NMatches
    /\ LET cur_winner == NameOf(winners_array[h_idx + 1])
           cur_loser == NameOf(losers_array[h_idx + 1])
           cur_a == RVec(a_full[h_idx + 1])
           cur_y == RVec(y_full[h_idx + 1])
           zero == Zeros(Len(a_full[1]) \div 2)
           d1 == defaultdict_get(h_ratings, cur_winner, zero)
           d2 == defaultdict_get(d1, cur_loser, zero)
           mu1 == d2[cur_winner]
           mu2 == d2[cur_loser]
           prior_win_prob == win_prob_fun(mu1, mu2, cur_a, elo_params.cov_mat)
       IN  IF "compute_update" \in module_globals
           THEN LET upd == concatenate_and_update(mu1, mu2, cur_a, cur_y,
                                                  elo_params)
                IN  /\ history' = Append(history,
                            [winner |-> cur_winner, loser |-> cur_loser,
                             prior_mu_winner |-> mu1, prior_mu_loser |-> mu2,
                             prior_win_prob |-> prior_win_prob])
                    /\ h_ratings' = [[d2 EXCEPT ![cur_winner] = upd[1]]
                                        EXCEPT ![cur_loser] = upd[2]]
                    /\ h_idx' = h_idx + 1
                    /\ h_pc' = "loop"
           \* NameError: name 'compute_update' is not defined
           ELSE /\ h_ratings' = d2
                /\ h_pc' = "raised"
                /\ UNCHANGED <<history, h_idx>>

\* the loop is exhausted: return history
HistoryReturn ==
    /\ pc = "done"
    /\ h_pc = "loop"
    /\ h_idx = NMatches
    /\ h_pc' = "returned"
    /\ UNCHANGED <<h_ratings, history, h_idx>>

---------------------------------------------------------------------------
(* Flattening Parameters and reconstructing them (optimise_elo,            *)
(* update_params).  Entries are integers; a covariance is one with an      *)
(* integer Cholesky factor.                                                *)

\* the integer square root of a perfect square
ISqrt(n) == CHOOSE r \in 0..n : r * r = n

RECURSIVE ISumTo(_, _)
ISumTo(f, n) == IF n = 0 THEN 0 ELSE ISumTo(f, n - 1) + f[n]

\* jnp.linalg.cholesky, entry (i, j) of the lower factor (Cholesky-Banachiewicz)
RECURSIVE CholEntry(_, _, _)
CholEntry(A, i, j) ==
    LET acc == ISumTo(Tup([k \in 1..(j - 1) |->
                          CholEntry(A, i, k) * CholEntry(A, j, k)]), j - 1)
    IN  IF j > i THEN 0
        ELSE IF i = j THEN ISqrt(A[i][i] - acc)
        ELSE (A[i][j] - acc) \div CholEntry(A, j, j)

cholesky(A) ==
    Tup([i \in 1..Len(A) |-> Tup([j \in 1..Len(A) |-> CholEntry(A, i, j)])])

\* ml_tools num_triangular_elts
num_triangular_elts(n) == (n * (n + 1)) \div 2

\* position (1-based) of entry (i, j), j <= i, in onp.tril_indices order
TrilPos(i, j) == num_triangular_elts(i - 1) + j

\* M[onp.tril_indices_from(M)]: the lower triangle, row by row
TrilElts(M) ==
    Tup([p \in 1..num_triangular_elts(Len(M)) |->
        LET i == CHOOSE r \in 1..Len(M) :
                    num_triangular_elts(r - 1) < p /\ p <= num_triangular_elts(r)
        IN  M[i][p - num_triangular_elts(i - 1)]])

get_starting_elts(cov_mat) == TrilElts(cholesky(cov_mat))

\* ml_tools flatten_and_summarise(**theta): the arrays end to end, and each
\* name with its size
RECURSIVE FlattenTheta(_)
FlattenTheta(theta) ==
    IF theta = <<>> THEN <<>> ELSE theta[1][2] \o FlattenTheta(Tail(theta))

Summarise(theta) ==
    Tup([i \in 1..Len(theta) |-> <<theta[i][1], Len(theta[i][2])>>])

SummarySize(summaries) ==
    ISumTo(Tup([i \in 1..Len(summaries) |-> summaries[i][2]]), Len(summaries))

\* a variant that puts theta in front of the covariance entries
start_elts_theta_first(cov_elts, theta_flat) == concatenate(theta_flat, cov_elts)

\* optimise_elo: start_elts = jnp.concatenate([start_cov_mat, theta_flat])
start_elts(cov_elts, theta_flat) == concatenate(cov_elts, theta_flat)

\* ml_tools pos_def_mat_from_tri_elts(elts, n): L L^T for the lower
\* triangular L filled row by row from elts.  ok is FALSE where the call
\* raises: elts of another length than n(n+1)/2, unless the library
\* broadcasts a single value over the triangle.
pos_def_mat_from_tri_elts(elts, n, lib) ==
    LET k == num_triangular_elts(n)
        fill == IF Len(elts) = k THEN elts ELSE Tup([p \in 1..k |-> elts[1]])
        L == Tup([i \in 1..n |-> Tup([j \in 1..n |->
                 IF j <= i THEN fill[TrilPos(i, j)] ELSE 0])])
    IN  IF Len(elts) = k \/ (Len(elts) = 1 /\ lib = "lenient")
        THEN [ok |-> TRUE,
              value |-> Tup([i \in 1..n |-> Tup([j \in 1..n |->
                  ISumTo(Tup([m \in 1..n |-> L[i][m] * L[j][m]]), n)])])]
        ELSE [ok |-> FALSE, value |-> <<>>]

RECURSIVE Rebuild(_, _)
Rebuild(flat, summaries) ==
    IF summaries = <<>> THEN <<>>
    ELSE << <<summaries[1][1], SubSeq(flat, 1, summaries[1][2])>> >>
         \o Rebuild(SubSeq(flat, summaries[1][2] + 1, Len(flat)), Tail(summaries))

\* functions.parse_theta_fun(flat, summaries): the named arrays cut from
\* flat.  It raises on too few entries; entries past the last array raise
\* in a strict library and are ignored in a lenient one.
parse_theta_fun(flat, summaries, lib) ==
    IF Len(flat) = SummarySize(summaries)
       \/ (Len(flat) > SummarySize(summaries) /\ lib = "lenient")
    THEN [ok |-> TRUE, value |-> Rebuild(flat, summaries)]
    ELSE [ok |-> FALSE, value |-> <<>>]

\* x[lo:] and x[:hi] of a Python sequence (0-based, clipped, never raising)
SliceTo(x, hi) == SubSeq(x, 1, IF hi < Len(x) THEN hi ELSE Len(x))
SliceFrom(x, lo) == SubSeq(x, lo + 1, Len(x))

\* a variant that checks the length of x before anything else
update_params_checked(x, params, summaries, lib) ==
    LET n_latent == Len(params.cov_mat)
        k == num_triangular_elts(n_latent)
        cov == pos_def_mat_from_tri_elts(SliceTo(x, k), n_latent, lib)
        theta == parse_theta_fun(SliceFrom(x, k), summaries, lib)
    IN  IF Len(x) # k + SummarySize(summaries)
        THEN [status |-> "raised", calls |-> <<>>, params |-> <<>>]
        ELSE [status |-> "returned",
              calls |-> <<"pos_def_mat_from_tri_elts", "parse_theta_fun">>,
              params |-> [theta |-> theta.value, cov_mat |-> cov.value]]

\* update_params: the calls it made, in order, and what came of them
update_params(x, params, summaries, lib) ==
    LET n_latent == Len(params.cov_mat)
        k == num_triangular_elts(n_latent)
        cov == pos_def_mat_from_tri_elts(SliceTo(x, k), n_latent, lib)
        theta == parse_theta_fun(SliceFrom(x, k), summaries, lib)
    IN  IF ~cov.ok
        THEN [status |-> "raised", calls |-> <<"pos_def_mat_from_tri_elts">>,
              params |-> <<>>]
        ELSE IF ~theta.ok
        THEN [status |-> "raised",
              calls |-> <<"pos_def_mat_from_tri_elts", "parse_theta_fun">>,
              params |-> <<>>]
        ELSE [status |-> "returned",
              calls |-> <<"pos_def_mat_from_tri_elts", "parse_theta_fun">>,
              params |-> [theta |-> theta.value, cov_mat |-> cov.value]]

\* lower triangular integer factors with a positive diagonal
Factors(n) ==
    {F \in [1..n -> [1..n -> -1..2]] :
        \A i, j \in 1..n : /\ (j > i => F[i][j] = 0)
                           /\ (i = j => F[i][j] > 0)
                           /\ (j < i => F[i][j] < 2)}

\* the covariances F F^T
CovSet(n) ==
    {Tup([i \in 1..n |-> Tup([j \in 1..n |->
        ISumTo(Tup([m \in 1..n |-> F[i][m] * F[j][m]]), n)])]) : F \in Factors(n)}

ThetaSet ==
    {Theta(1), Theta(2),
     << <<"scale", <<2>> >>, <<"margin", <<0, 1>> >> >>,
     << <<"margin", <<1, 0>> >>, <<"scale", <<1>> >> >>}

ParInit ==
    /\ \E n \in 1..MaxDim : \E c \in CovSet(n) : \E t \in ThetaSet :
          p_start = [theta |-> t, cov_mat |-> c]
    /\ p_lib \in {"strict", "lenient"}
    /\ p_flat = None
    /\ p_summaries = None
    /\ p_x = None
    /\ p_calls = <<>>
    /\ p_out = None
    /\ p_pc = "start"

\* optimise_elo, up to start_elts
Flatten ==
    /\ p_pc = "start"
    /\ p_flat' = start_elts(get_starting_elts(p_start.cov_mat),
                            FlattenTheta(p_start.theta))
    /\ p_summaries' = Summarise(p_start.theta)
    /\ p_pc' = "flattened"
    /\ UNCHANGED <<p_start, p_x, p_lib, p_calls, p_out>>

\* the vector update_params is called with: the flat vector itself (the
\* optimiser's first evaluation), or one of another length (a caller's)
HandOver ==
    /\ p_pc = "flattened"
    /\ \E m \in 0..(Len(p_flat) + 1) :
          p_x' = IF m <= Len(p_flat) THEN SubSeq(p_flat, 1, m)
                 ELSE Append(p_flat, 0)
    /\ p_pc' = "given"
    /\ UNCHANGED <<p_start, p_flat, p_summaries, p_lib, p_calls, p_out>>

UpdateParams ==
    /\ p_pc = "given"
    /\ \E r \in {update_params(p_x, p_start, p_summaries, p_lib)} :
           /\ p_calls' = r.calls
           /\ p_out' = r.params
           /\ p_pc' = r.status
    /\ UNCHANGED <<p_start, p_flat, p_summaries, p_x, p_lib>>

---------------------------------------------------------------------------
(* calculate_win_prob on given inputs. *)

\* shared covariances of one and of two skills
WpCovs(n) ==
    IF n = 1 THEN {<<<<1>>>>, <<<<4>>>>} ELSE {<<<<1, 1>>, <<1, 2>>>>}

WpInit ==
    /\ \E n \in 1..2 : \E c \in WpCovs(n) :
       \E m1 \in [1..n -> (-MaxMean)..MaxMean] :
       \E m2 \in [1..n -> (-MaxMean)..MaxMean] :
       \E a \in [1..(2 * n) -> -1..1] :
       \E f \in {1, 2} :
          wp_in = [mu1 |-> m1, mu2 |-> m2, a |-> a, cov_mat |-> c,
                   pre_factor |-> f]
    /\ wp_out = None
    /\ wp_pc = "call"

WinProb ==
    /\ wp_pc = "call"
    /\ wp_out' = <<calculate_win_prob(RVec(wp_in.mu1), RVec(wp_in.mu2),
                                      RVec(wp_in.a), RMat(wp_in.cov_mat),
                                      R(wp_in.pre_factor))>>
    /\ wp_pc' = "done"
    /\ UNCHANGED wp_in

---------------------------------------------------------------------------
(* The specifications.  Each runs one part of the module; the variables of *)
(* the other parts rest.                                                   *)

HistIdle == h_ratings = <<>> /\ history = <<>> /\ h_idx = 0 /\ h_pc = "idle"

WpIdle == wp_in = None /\ wp_out = None /\ wp_pc = "idle"

ParIdle ==
    /\ p_start = None /\ p_flat = None /\ p_summaries = None /\ p_x = None
    /\ p_lib = "strict" /\ p_calls = <<>> /\ p_out = None /\ p_pc = "idle"

ScanIdle ==
    /\ winners_array = <<>> /\ losers_array = <<>> /\ a_full = <<>>
    /\ y_full = <<>> /\ elo_params = None /\ init = None /\ caller = "idle"
    /\ backend = {} /\ carry = None /\ idx = 0 /\ liks = <<>> /\ pc = "idle"
    /\ total = None /\ objective = None /\ reads = <<>> /\ writes = <<>>

\* the two rating updaters over the same match list
Init == ScanInit /\ HistInit /\ WpIdle /\ ParIdle

Next ==
    \/ JitCompile /\ UNCHANGED <<histVars, wpVars, parVars>>
    \/ ScanStep /\ UNCHANGED <<histVars, wpVars, parVars>>
    \/ ScanReturn /\ UNCHANGED <<histVars, wpVars, parVars>>
    \/ HistoryStep /\ UNCHANGED <<scanVars, wpVars, parVars>>
    \/ HistoryReturn /\ UNCHANGED <<scanVars, wpVars, parVars>>

Spec == Init /\ [][Next]_vars

\* flatten and reconstruct
InitParams == ParInit /\ ScanIdle /\ HistIdle /\ WpIdle

NextParams ==
    \/ Flatten /\ UNCHANGED <<scanVars, histVars, wpVars>>
    \/ HandOver /\ UNCHANGED <<scanVars, histVars, wpVars>>
    \/ UpdateParams /\ UNCHANGED <<scanVars, histVars, wpVars>>

SpecParams == InitParams /\ [][NextParams]_vars

\* the win-probability estimator
InitWinProb == WpInit /\ ScanIdle /\ HistIdle /\ ParIdle

NextWinProb == WinProb /\ UNCHANGED <<scanVars, histVars, parVars>>

SpecWinProb == InitWinProb /\ [][NextWinProb]_vars

---------------------------------------------------------------------------
(* Properties of the fixed-index updater.                                  *)

\* the competitors of match i (0-based)
Competitors(i) == {winners_array[i + 1], losers_array[i + 1]}

\* C1: a step of the scan changes at most the rows of the match's winner and
\* loser -- every other row after the step is the row before it -- and the
\* table keeps its rows and their length L.
C1_FrameEffect ==
    [][(pc = "scan" /\ idx' = idx + 1) =>
          /\ DOMAIN carry' = DOMAIN carry
          /\ \A k \in DOMAIN carry :
                /\ Len(carry'[k]) = NSkills(elo_params)
                /\ k \notin Competitors(idx) => carry'[k] = carry[k]]_vars

\* two matches done, both the second one's rows rewritten, other rows left
C1_Witness ==
    /\ pc = "scan" /\ idx = 2
    /\ \A k \in Competitors(1) : carry[k] # init[k]
    /\ \E k \in Players : k \notin Competitors(0) \cup Competitors(1)

\* the mean of competitor k written by the most recent match before match i
\* that k took part in (the loser's write is the later of the two), or k's
\* row of the initial table
LastWrite(k, i) ==
    LET js == {j \in 0..(i - 1) : k \in Competitors(j)}
    IN  IF js = {} THEN init[k]
        ELSE LET j == CHOOSE m \in js : \A n \in js : n <= m
             IN  IF losers_array[j + 1] = k THEN writes[j + 1].new2
                 ELSE writes[j + 1].new1

\* C2: the mean read for a competitor at match i is the mean written by the
\* most recent earlier match of that competitor, or its initial row; the
\* matches are consumed in the order 0..N-1, each once.
C2_ReadsSeeLatestWrite ==
    /\ Len(reads) = idx
    /\ Len(writes) = idx
    /\ idx <= NMatches
    /\ pc = "done" => idx = NMatches
    /\ \A i \in 0..(idx - 1) :
          /\ reads[i + 1].i = i
          /\ reads[i + 1].mu1 = LastWrite(winners_array[i + 1], i)
          /\ reads[i + 1].mu2 = LastWrite(losers_array[i + 1], i)

\* the second match read a mean that the first match had changed
C2_Witness ==
    /\ idx = 2
    /\ winners_array[2] \in Competitors(0)
    /\ reads[2].mu1 # init[winners_array[2]]
    /\ losers_array[2] \notin Competitors(0)

\* the table and the likelihoods after the first k matches of the arrays
\* w, l, a, y, folded from table t0
RECURSIVE ScanOf(_, _, _, _, _, _)
ScanOf(t0, w, l, a, y, k) ==
    IF k = 0 THEN [carry |-> t0, liks |-> <<>>]
    ELSE LET prev == ScanOf(t0, w, l, a, y, k - 1)
             r == update_ratings(prev.carry,
                                 <<w[k], l[k], RVec(a[k]), RVec(y[k])>>,
                                 elo_params)
         IN  [carry |-> r.carry, liks |-> Append(prev.liks, r.lik)]

\* the likelihood calculate_update returns for match i (0-based) on the means
\* of its winner and loser as matches 0..i-1 left them
SingleMatchLik(i) ==
    LET x == MatchAt(i)
    IN  calculate_update(concatenate(LastWrite(x[1], i), LastWrite(x[2], i)),
                         kron_eye2(RMat(elo_params.cov_mat)),
                         x[3], x[4], elo_params)[2]

\* C3: the total calculate_ratings_scan returns is the sum of the N per-match
\* likelihoods, the i-th being what calculate_update returns on the means of
\* winner[i] and loser[i] as they stand after matches 0..i-1.
C3_TotalIsSumOfLiks ==
    pc = "done" =>
        total = <<Sum(Tup([i \in 1..NMatches |-> SingleMatchLik(i - 1)]))>>

\* two matches with different likelihoods summed
C3_Witness ==
    /\ pc = "done" /\ NMatches = 2
    /\ liks[1] # liks[2] /\ liks[1] # R(0) /\ liks[2] # R(0)
    /\ IsFinite(total[1])

\* the sequence s with elements j and j+1 exchanged
SwapAt(s, j) ==
    Tup([i \in 1..Len(s) |->
            IF i = j THEN s[j + 1] ELSE IF i = j + 1 THEN s[j] ELSE s[i]])

\* what calculate_ratings_scan returns with matches j and j+1 exchanged
SwappedRun(j) ==
    LET f == ScanOf(init, SwapAt(winners_array, j), SwapAt(losers_array, j),
                    SwapAt(a_full, j), SwapAt(y_full, j), NMatches)
    IN  scan_result(f.carry, f.liks)

\* C4: exchanging two adjacent matches with disjoint competitor sets leaves
\* the final table and the total log-likelihood unchanged.
C4_DisjointMatchesCommute ==
    pc = "done" =>
        \A j \in 1..(NMatches - 1) :
            Competitors(j - 1) \cap Competitors(j) = {} =>
                SwappedRun(j) = <<carry, total[1]>>

\* two disjoint matches between four competitors, with different effects
C4_Witness ==
    /\ pc = "done" /\ NMatches = 2
    /\ Cardinality(Competitors(0) \cup Competitors(1)) = 4
    /\ liks[1] # liks[2]
    /\ a_full[1] # a_full[2]
    /\ \A k \in Competitors(0) \cup Competitors(1) : carry[k] # init[k]

---------------------------------------------------------------------------
(* Properties of the history builder.                                      *)

\* C5: on the match list of a scan started from the all-zero table, with
\* name k for index k, calculate_ratings_history runs to completion and ends
\* with each competitor's mean equal to its row of the scan's final table.
C5_HistoryAgreesWithScan ==
    (pc = "done" /\ caller = "to_optimise") =>
        /\ h_pc # "raised"
        /\ h_pc = "returned" =>
              \A k \in Players :
                  NameOf(k) \in DOMAIN h_ratings =>
                      h_ratings[NameOf(k)] = carry[k]

\* C6: calculate_ratings_history returns N records in the order of the
\* matches, record i naming winner[i] and loser[i] with the means they had
\* before match i; a name met for the first time has the all-zero mean.
C6_HistoryRecords ==
    /\ h_pc # "raised"
    /\ h_pc = "returned" =>
          /\ Len(history) = NMatches
          /\ \A i \in 1..NMatches :
                /\ history[i].winner = NameOf(winners_array[i])
                /\ history[i].loser = NameOf(losers_array[i])
                /\ (\A j \in 0..(i - 2) : winners_array[i] \notin Competitors(j))
                      => history[i].prior_mu_winner = Zeros(NSkills(elo_params))
                /\ (\A j \in 0..(i - 2) : losers_array[i] \notin Competitors(j))
                      => history[i].prior_mu_loser = Zeros(NSkills(elo_params))

---------------------------------------------------------------------------
(* Properties of flattening and reconstruction.                            *)

\* the number of covariance entries in front of the flat vector
NCovElts == num_triangular_elts(Len(p_start.cov_mat))

\* C7: the flat vector is the L(L+1)/2 lower-triangular Cholesky entries of
\* the covariance, row by row, followed by the flattened theta; update_params
\* on that vector and the same shape descriptor returns the covariance and
\* the theta that were flattened.
C7_FlattenRoundTrip ==
    /\ p_pc \notin {"idle", "start"} =>
          /\ Len(p_flat) = NCovElts + SummarySize(p_summaries)
          /\ LET chol == cholesky(p_start.cov_mat)
             IN  \A i \in 1..Len(chol) : \A j \in 1..i :
                     p_flat[TrilPos(i, j)] = chol[i][j]
          /\ SubSeq(p_flat, NCovElts + 1, Len(p_flat)) = FlattenTheta(p_start.theta)
    /\ (p_pc \in {"raised", "returned"} /\ p_x = p_flat) =>
          /\ p_pc = "returned"
          /\ p_out = p_start

\* a two-skill covariance with correlated skills and a theta of two arrays
C7_Witness ==
    /\ p_pc = "returned" /\ p_x = p_flat
    /\ Len(p_start.cov_mat) = 2
    /\ p_start.cov_mat[2][1] # 0
    /\ Len(p_start.theta) = 2
    /\ p_flat[1] # p_flat[3]

\* what a length check in front of update_params would mean: a vector of
\* another length than the flat vector raises before any call is made
C10_LengthCheckedFirst ==
    (p_pc \in {"raised", "returned"} /\ Len(p_x) # Len(p_flat)) =>
        /\ p_pc = "raised"
        /\ p_calls = <<>>

\* C10: update_params checks no length.  It always reconstructs a covariance
\* from x[:k] first, k = L(L+1)/2, and parses theta from x[k:] if that went
\* through; it raises only where one of the two calls raises, and returns
\* Parameters from a vector of another length when neither does.
C10_NoLengthCheck ==
    p_pc \in {"raised", "returned"} =>
        LET cov == pos_def_mat_from_tri_elts(SliceTo(p_x, NCovElts),
                                             Len(p_start.cov_mat), p_lib)
            theta == parse_theta_fun(SliceFrom(p_x, NCovElts), p_summaries,
                                     p_lib)
        IN  /\ Len(p_calls) >= 1
            /\ p_calls[1] = "pos_def_mat_from_tri_elts"
            /\ Len(p_calls) = 2 <=> cov.ok
            /\ Len(p_calls) = 2 => p_calls[2] = "parse_theta_fun"
            /\ p_pc = "returned" <=> (cov.ok /\ theta.ok)
            /\ Len(p_x) >= NCovElts => cov.ok

\* a vector too short for theta: the covariance was reconstructed, then the
\* parser raised
C10_Witness ==
    /\ p_pc = "raised"
    /\ Len(p_x) < Len(p_flat)
    /\ p_calls = <<"pos_def_mat_from_tri_elts", "parse_theta_fun">>

---------------------------------------------------------------------------
(* Properties of the win-probability estimator.                            *)

\* the design vector weighs the second competitor opposite to the first
Antisymmetric(a) ==
    \A j \in 1..(Len(a) \div 2) : a[Len(a) \div 2 + j] = -a[j]

\* the mean of the latent a.[mu1, mu2]
LatentMean == Dot(RVec(wp_in.a), RVec(wp_in.mu1 \o wp_in.mu2))

\* the statement for any design vector: equal means give 0.5
C8_EqualMeansAnyDesign ==
    (wp_pc = "done" /\ wp_in.mu1 = wp_in.mu2) => wp_out = <<"half">>

\* C8: for equal means calculate_win_prob returns 0.5 exactly when the
\* latent mean a.[mean, mean] is zero, as it is for every design vector of
\* the form [v, -v]; for a design vector with a.[mean, mean] # 0 the result
\* is on the side of 0.5 given by the sign of a.[mean, mean].
C8_EqualMeansAntisymmetricDesign ==
    (wp_pc = "done" /\ wp_in.mu1 = wp_in.mu2) =>
        /\ Antisymmetric(wp_in.a) => wp_out = <<"half">>
        /\ wp_out = <<"half">> <=> LatentMean = R(0)
        /\ wp_out = <<"above_half">> <=> LatentMean[1] > 0

\* equal non-zero means of two skills under a design vector [v, -v], v # 0
C8_Witness ==
    /\ wp_pc = "done" /\ wp_in.mu1 = wp_in.mu2
    /\ Len(wp_in.mu1) = 2
    /\ wp_in.mu1[1] # 0 /\ wp_in.mu1[2] # 0
    /\ Antisymmetric(wp_in.a) /\ wp_in.a[1] # 0 /\ wp_in.a[2] # 0
    /\ wp_out = <<"half">>

===========================================================================
